---- MODULE Spec2Model ----
(***************************************************************************)
(* Model of the DE power grid maintainer (crates/energy/src/graph.rs), of  *)
(* the k-d tree entity index (crates/index/src/kdtree.rs), of the remote   *)
(* entity id map and the incoming player messages                          *)
(* (crates/multiplayer/src/playermsg.rs) and of the selection              *)
(* (crates/controller/src/selection.rs).                                   *)
(*                                                                         *)
(* Node indices are 1-based here: petgraph's NodeIndex k is position k+1   *)
(* of the sequence `nodes`.  Distances are compared through their squares, *)
(* which orders them exactly as f32 `distance` does on these coordinates.  *)
(***************************************************************************)
EXTENDS Integers, Sequences, FiniteSets, Bags, TLC

\* ---------------------------------------------------------------- bounds
NumEntities == 3
\* Entities of the spawn-only specification (more than MAX_EDGES + 1 of them).
ClusterSize == 6
\* Solids of the k-d tree specification.
NumSolids == 3
\* Remote and local entity ids of the id map specification.
NumRemotes == 3
NumLocals == 3
\* Messages read by one run of recv_messages.
MaxMessages == 2
\* Entities a SelectEvent may list, and SelectEvents read by one run of update_selection.
NumUnits == 3
MaxEvents == 2

\* ------------------------------------------------------------- constants
MAX_DISTANCE == 10
MAX_EDGES == 4
MAX_TRANSFER_RATE == 1000000

\* Transform translations (Vec3) the entities may take.
Locs == { <<0, 0, 0>>, <<6, 0, 0>>, <<12, 0, 0>> }

\* Transform translations of the solids the k-d tree indexes; two of them differ
\* in height only, and so have the same flat position.
KdLocs == { <<0, 0, 0>>, <<0, 5, 0>>, <<3, 0, 4>> }

Roles == { "receiver", "producer" }

\* The role component an entity is spawned with (EnergyReceiver or EnergyProducer).
RoleOf(e) == IF e % 2 = 1 THEN "receiver" ELSE "producer"

VARIABLES
    world,           \* entity -> [status, location]: the ECS world seen by the queries
    nodes,           \* PowerGrid.graph: node weights (Member), by node index
    edges,           \* PowerGrid.graph: bag of edges <<a, b>> between node indices
    entity_to_node,  \* PowerGrid.entity_to_node
    edges_to_add,    \* the list update_power_grid built in its last run
    edges_to_remove, \* the list update_power_grid built in its last run
    synced,          \* a pass completed and the world has not changed since
    gridPanicked,    \* update_power_grid panicked (index out of bounds)
    solids,          \* entity -> [status, translation, tracked, changed]: the solids
    tree,            \* EntityKdTree.tree: bag of <<point, item>>
    entity_to_last_loc, \* EntityKdTree.entity_to_last_loc
    markers,         \* entities with a queued command inserting TrackedByKdTree
    relocated,       \* entities whose tree item the last run of update moved
    kdPhase,         \* "systems": PreUpdate is running; "world": the rest of the frame
    ranInsert,       \* insert has run in this frame
    ranUpdate,       \* update has run in this frame
    kdPanicked,      \* update panicked (unwrap on None)
    remote_to_local, \* EntityIdMapRes.remote_to_local
    local_to_remote, \* EntityIdMapRes.local_to_remote
    idPanicked,      \* register or deregister panicked (assert! or unwrap)
    idReturned,      \* what the last call of deregister returned, if it returned
    local_entities,  \* Entities: the number of entity ids the local world has handed out
    inputs,          \* the FromPlayersEvent messages the last run of recv_messages read
    spawn_events,    \* NetRecvSpawnActiveEvent sent by the last run of recv_messages
    despawn_events,  \* NetRecvDespawnActiveEvent sent by the last run of recv_messages
    health_events,   \* NetRecvHealthEvent sent by the last run of recv_messages
    selected,        \* the entities with the Selected component
    circle_marker,   \* the entities with the CircleMarker component
    selCommands,     \* Commands queued by update_selection, not yet applied
    selRun,          \* the SelectEvents update_selection read, until its commands are applied
    selPhase         \* "input": before update_selection; "flush": before the stage's commands apply

gridVars == << world, nodes, edges, entity_to_node, edges_to_add,
               edges_to_remove, synced, gridPanicked >>

kdVars == << solids, tree, entity_to_last_loc, markers, relocated, kdPhase, ranInsert,
             ranUpdate, kdPanicked >>

idVars == << remote_to_local, local_to_remote, idPanicked, idReturned >>

netVars == << local_entities, inputs, spawn_events, despawn_events, health_events >>

selVars == << selected, circle_marker, selCommands, selRun, selPhase >>

vars == << gridVars, kdVars, idVars, netVars, selVars >>

Entities == DOMAIN world

\* ------------------------------------------------------------ helpers
Range(s) == { s[i] : i \in DOMAIN s }

\* All orders in which a finite set can be iterated.
Perms(S) ==
    { p \in [1..Cardinality(S) -> S] : \A i, j \in 1..Cardinality(S) : p[i] = p[j] => i = j }

Sq(x) == x * x

\* Vec3::distance, squared.
Dist2(a, b) == Sq(a[1] - b[1]) + Sq(a[2] - b[2]) + Sq(a[3] - b[3])

WithinMax(a, b) == Dist2(a, b) <= Sq(MAX_DISTANCE)

Member(e, l) == [entity |-> e, location |-> l]

\* The entity passes one of the two queries: it has a role and a Transform.
Eligible(e) == world[e].status \in Roles

\* ------------------------------------------------------------ petgraph
\* An edge is <<a, b, weight>>; the graph is undirected, so <<a, b, w>> and
\* <<b, a, w>> join the same pair of nodes.
Joins(p, a, b) == (p[1] = a /\ p[2] = b) \/ (p[1] = b /\ p[2] = a)

\* Graph::find_edge on an undirected graph: some edge joins a and b.
find_edge(es, a, b) == \E p \in BagToSet(es) : Joins(p, a, b)

\* Number of copies in the bag es of the edges in the set S.
RECURSIVE Copies(_, _)
Copies(es, S) ==
    IF S = {} THEN 0
    ELSE LET p == CHOOSE q \in S : TRUE
         IN  CopiesIn(p, es) + Copies(es, S \ {p})

\* Number of edges incident to node a (parallel edges count each).
Degree(es, a) == Copies(es, { p \in BagToSet(es) : p[1] = a \/ p[2] = a })

\* Number of edges joining a and b, in either direction.
Multiplicity(es, a, b) == Copies(es, { p \in BagToSet(es) : Joins(p, a, b) })

\* The bag es with the endpoint `old` renamed to `new` in every edge.
RenameEdges(es, old, new) ==
    LET ren(k) == IF k = old THEN new ELSE k
        to(p) == <<ren(p[1]), ren(p[2]), p[3]>>
    IN  [q \in { to(p) : p \in BagToSet(es) }
            |-> Copies(es, { p \in BagToSet(es) : to(p) = q })]

\* Graph::remove_node: nothing happens for an index that is not in the graph;
\* otherwise the edges of a go, the last node adopts index a, and its edges follow.
remove_node(g, a) ==
    IF a \notin 1..Len(g.nodes) THEN g
    ELSE LET last == Len(g.nodes)
             kept == [p \in { q \in BagToSet(g.edges) : q[1] # a /\ q[2] # a }
                        |-> CopiesIn(p, g.edges)]
             moved == [i \in 1..(last - 1) |-> IF i = a THEN g.nodes[last] ELSE g.nodes[i]]
         IN  [nodes |-> moved, edges |-> RenameEdges(kept, last, a)]

\* An add_edge that joins the first node to itself.
add_edge_loop(es, a, b, w) == es (+) SetToBag({ <<a, a, w>> })

\* Graph::add_edge
add_edge(es, a, b, w) == es (+) SetToBag({ <<a, b, w>> })

\* ------------------------------------------------------- update_power_grid
\* update_nodes_helper: remove the listed node indices, in the order listed.
RECURSIVE update_nodes_helper(_, _)
update_nodes_helper(g, nodes_to_remove) ==
    IF nodes_to_remove = << >> THEN g
    ELSE update_nodes_helper(remove_node(g, Head(nodes_to_remove)), Tail(nodes_to_remove))

\* One iteration of the "find new and updated entities" loops, for entity e.
\* st = [nodes, map, updated, panicked]; indexing the graph with an index that
\* is not in it panics.
VisitEntity(st, e) ==
    IF st.panicked THEN st
    ELSE IF e \in DOMAIN st.map
    THEN LET node_index == st.map[e]
         IN  IF node_index \notin 1..Len(st.nodes)
             THEN [st EXCEPT !.panicked = TRUE]
             ELSE IF st.nodes[node_index].location # world[e].location
             THEN [st EXCEPT !.updated = Append(@, <<node_index, world[e].location>>)]
             ELSE st
    ELSE LET new_node_index == Len(st.nodes) + 1
         IN  [st EXCEPT !.nodes = Append(@, Member(e, world[e].location)),
                        !.map = [x \in DOMAIN st.map \cup {e} |->
                                    IF x = e THEN new_node_index ELSE st.map[x]]]

\* The receivers loop followed by the producers loop, over the entities in `order`.
RECURSIVE FindNewAndUpdated(_, _)
FindNewAndUpdated(st, order) ==
    IF order = << >> THEN st
    ELSE FindNewAndUpdated(VisitEntity(st, Head(order)), Tail(order))

\* for (node, transform) in updated_transforms { graph[node].location = transform }
RECURSIVE ApplyTransforms(_, _)
ApplyTransforms(ns, updated) ==
    IF updated = << >> THEN ns
    ELSE ApplyTransforms([ns EXCEPT ![Head(updated)[1]].location = Head(updated)[2]],
                         Tail(updated))

\* The loop of update_edges_helper from other_node_index on; `count` is the local `edges`,
\* acc = [add, remove] are the two lists being built.
RECURSIVE ScanOthers(_, _, _, _, _, _, _)
ScanOthers(ns, es, node_one, node_location, other, count, acc) ==
    IF other > Len(ns) THEN acc
    ELSE IF node_one = other
    THEN ScanOthers(ns, es, node_one, node_location, other + 1, count, acc)
    ELSE LET near == WithinMax(node_location, ns[other].location)
             cand == <<node_one, other, MAX_TRANSFER_RATE>>
             push == /\ near
                     /\ ~find_edge(es, node_one, other)
                     /\ cand \notin Range(acc.add)
             acc1 == IF push THEN [acc EXCEPT !.add = Append(@, cand)] ELSE acc
             acc2 == IF ~near /\ find_edge(es, node_one, other)
                     THEN [acc1 EXCEPT !.remove = Append(@, <<node_one, other>>)]
                     ELSE acc1
         IN  IF push /\ count + 1 = MAX_EDGES
             THEN acc1
             ELSE ScanOthers(ns, es, node_one, node_location, other + 1,
                             IF push THEN count + 1 ELSE count, acc2)

update_edges_helper(ns, es, node_one, node_location, acc) ==
    ScanOthers(ns, es, node_one, node_location, 1, 0, acc)

\* for node_one in graph.node_indices() { update_edges_helper(...) }
RECURSIVE UpdateEdges(_, _, _, _)
UpdateEdges(ns, es, node_one, acc) ==
    IF node_one > Len(ns) THEN acc
    ELSE UpdateEdges(ns, es, node_one + 1,
                     update_edges_helper(ns, es, node_one, ns[node_one].location, acc))

\* for (node_one, node_two, weight) in edges_to_add { graph.add_edge(...) }
RECURSIVE AddEdges(_, _)
AddEdges(es, toAdd) ==
    IF toAdd = << >> THEN es
    ELSE AddEdges(add_edge(es, Head(toAdd)[1], Head(toAdd)[2], Head(toAdd)[3]), Tail(toAdd))

\* The whole of update_power_grid, for one iteration order of the hash map
\* (removal) and one iteration order of the two queries (visit).
RunPass(removal, visit) ==
    LET retained == { e \in DOMAIN entity_to_node : Eligible(e) }
        map0 == [e \in retained |-> entity_to_node[e]]
        nodes_to_remove == [i \in DOMAIN removal |-> entity_to_node[removal[i]]]
        g1 == update_nodes_helper([nodes |-> nodes, edges |-> edges], nodes_to_remove)
        st == FindNewAndUpdated([nodes |-> g1.nodes, map |-> map0,
                                 updated |-> << >>, panicked |-> FALSE], visit)
        ns == ApplyTransforms(st.nodes, st.updated)
        acc == UpdateEdges(ns, g1.edges, 1, [add |-> << >>, remove |-> << >>])
    IN  IF st.panicked
        THEN [nodes |-> st.nodes, edges |-> g1.edges, map |-> st.map,
              add |-> << >>, remove |-> << >>, panicked |-> TRUE]
        ELSE [nodes |-> ns, edges |-> AddEdges(g1.edges, acc.add), map |-> st.map,
              add |-> acc.add, remove |-> acc.remove, panicked |-> FALSE]

\* The effect of one run of the system, for the given iteration orders.
Pass(removal, visit) ==
    LET r == RunPass(removal, visit)
    IN  /\ nodes' = r.nodes
        /\ edges' = r.edges
        /\ entity_to_node' = r.map
        /\ edges_to_add' = r.add
        /\ edges_to_remove' = r.remove
        /\ gridPanicked' = r.panicked
        /\ synced' = ~r.panicked
        /\ UNCHANGED << world, kdVars, idVars, netVars, selVars >>

Removed == { e \in DOMAIN entity_to_node : ~Eligible(e) }
Receivers == { e \in Entities : world[e].status = "receiver" }
Producers == { e \in Entities : world[e].status = "producer" }

\* HashMap::retain and Query::iter promise no iteration order: any order may occur.
update_power_grid ==
    /\ ~gridPanicked
    /\ \E removal \in Perms(Removed), ro \in Perms(Receivers), po \in Perms(Producers) :
          Pass(removal, ro \o po)

\* The entities of S in increasing id order.
RECURSIVE Ascending(_)
Ascending(S) ==
    IF S = {} THEN << >>
    ELSE LET m == CHOOSE x \in S : \A y \in S : x <= y
         IN  <<m>> \o Ascending(S \ {m})

\* The same system over a world in which entities only spawn: each query then
\* iterates its table in row order, which is the order of spawning.
update_power_grid_in_spawn_order ==
    /\ ~gridPanicked
    /\ \E removal \in Perms(Removed) :
          Pass(removal, Ascending(Receivers) \o Ascending(Producers))

\* --------------------------------------------------------------- the world
\* An entity is spawned with a role and a Transform; the world hands out entity
\* ids in increasing order and never reuses the id of a despawned entity.
Spawn(e, loc) ==
    /\ ~gridPanicked
    /\ world[e].status = "unspawned"
    /\ \A d \in Entities : d < e => world[d].status # "unspawned"
    /\ world' = [world EXCEPT ![e] = [status |-> RoleOf(e), location |-> loc]]
    /\ synced' = FALSE
    /\ UNCHANGED << nodes, edges, entity_to_node, edges_to_add, edges_to_remove, gridPanicked >>
    /\ UNCHANGED << kdVars, idVars, netVars, selVars >>

\* The Transform of a live entity changes.
Move(e, loc) ==
    /\ ~gridPanicked
    /\ world[e].status \in Roles
    /\ world[e].location # loc
    /\ world' = [world EXCEPT ![e].location = loc]
    /\ synced' = FALSE
    /\ UNCHANGED << nodes, edges, entity_to_node, edges_to_add, edges_to_remove, gridPanicked >>
    /\ UNCHANGED << kdVars, idVars, netVars, selVars >>

\* The entity is despawned (or loses its role): it passes neither query any more.
Despawn(e) ==
    /\ ~gridPanicked
    /\ world[e].status \in Roles
    /\ world' = [world EXCEPT ![e].status = "despawned"]
    /\ synced' = FALSE
    /\ UNCHANGED << nodes, edges, entity_to_node, edges_to_add, edges_to_remove, gridPanicked >>
    /\ UNCHANGED << kdVars, idVars, netVars, selVars >>

\* setup: PowerGrid::default(), over a world in which nothing is spawned yet.
Origin == <<0, 0, 0>>

GridInit(n) ==
    /\ world = [e \in 1..n |-> [status |-> "unspawned", location |-> Origin]]
    /\ nodes = << >>
    /\ edges = EmptyBag
    /\ entity_to_node = << >>
    /\ edges_to_add = << >>
    /\ edges_to_remove = << >>
    /\ synced = FALSE
    /\ gridPanicked = FALSE

\* ------------------------------------------------------------ EntityKdTree
\* ToFlat for Vec3: the ground-plane position (x, -z).
to_flat(v) == << v[1], 0 - v[3] >>

\* Entity::to_bits and Entity::from_bits; the ids of the model have generation 0.
to_bits(e) == e
from_bits(b) == b

Abs(x) == IF x < 0 THEN 0 - x ELSE x

\* kiddo's Manhattan::dist
Manhattan(a, b) == Abs(a[1] - b[1]) + Abs(a[2] - b[2])

\* A KdTree::add that stores nothing.
tree_add_nowhere(t, point, item) == t

\* KdTree::add
tree_add(t, point, item) == t (+) SetToBag({ << point, item >> })

\* KdTree::remove that leaves the stored item in place.
tree_remove_lost(t, point, item) == t

\* KdTree::remove: every stored copy of the item at that point goes.
tree_remove(t, point, item) ==
    [x \in BagToSet(t) \ { << point, item >> } |-> CopiesIn(x, t)]

\* KdTree::within::<Manhattan>: the stored items nearer to the point than the
\* radius, nearest first, each with its distance.
RECURSIVE NearestFirst(_, _)
NearestFirst(t, point) ==
    IF BagToSet(t) = {} THEN << >>
    ELSE LET x == CHOOSE y \in BagToSet(t) :
                    \A z \in BagToSet(t) : Manhattan(point, y[1]) <= Manhattan(point, z[1])
         IN  [i \in 1..CopiesIn(x, t) |-> [distance |-> Manhattan(point, x[1]), item |-> x[2]]]
             \o NearestFirst([z \in BagToSet(t) \ {x} |-> CopiesIn(z, t)], point)

\* A within that ignores the radius.
within_unbounded(t, point, r) == NearestFirst(t, point)

within(t, point, r) ==
    NearestFirst([x \in { y \in BagToSet(t) : Manhattan(point, y[1]) < r } |-> CopiesIn(x, t)],
                 point)

\* EntityKdTree::radius
radius(point, r) ==
    LET found == within(tree, point, r)
    IN  [i \in DOMAIN found |-> << found[i].distance, from_bits(found[i].item) >>]

Alive(e) == solids[e].status = "alive"

\* insert: every solid without the marker that has no record yet is recorded,
\* added to the tree, and a command inserting the marker is queued.
InsertQuery == { e \in DOMAIN solids : Alive(e) /\ ~solids[e].tracked }

RECURSIVE AddAll(_, _)
AddAll(t, S) ==
    IF S = {} THEN t
    ELSE LET e == CHOOSE x \in S : TRUE
         IN  AddAll(tree_add(t, to_flat(solids[e].translation), to_bits(e)), S \ {e})

insert ==
    /\ ~kdPanicked
    /\ kdPhase = "systems"
    /\ ~ranInsert
    /\ LET new == { e \in InsertQuery : e \notin DOMAIN entity_to_last_loc }
       IN  /\ entity_to_last_loc' =
                [e \in DOMAIN entity_to_last_loc \cup new |->
                    IF e \in new THEN to_flat(solids[e].translation)
                    ELSE entity_to_last_loc[e]]
           /\ tree' = AddAll(tree, new)
           /\ markers' = markers \cup new
    /\ ranInsert' = TRUE
    /\ UNCHANGED << solids, relocated, kdPhase, ranUpdate, kdPanicked >>
    /\ UNCHANGED << gridVars, idVars, netVars, selVars >>

\* update: the loop body for the entities of S, which all have a record.
UpdateQuery == { e \in DOMAIN solids : Alive(e) /\ solids[e].tracked /\ solids[e].changed }

RECURSIVE MoveAll(_, _)
MoveAll(st, S) ==
    IF S = {} THEN st
    ELSE LET e == CHOOSE x \in S : TRUE
             last_known_coords == st.map[e]
             coords == to_flat(solids[e].translation)
             next == IF last_known_coords = coords THEN st
                     ELSE [tree |-> tree_add(tree_remove(st.tree, last_known_coords, to_bits(e)),
                                             coords, to_bits(e)),
                           map |-> [st.map EXCEPT ![e] = coords]]
         IN  MoveAll(next, S \ {e})

\* Every Transform is unchanged for the next run once this run is over.  An entity
\* of the query without a record makes unwrap panic; the entities iterated before
\* it, in the query's unspecified order, have been processed by then.
update ==
    /\ ~kdPanicked
    /\ kdPhase = "systems"
    /\ ~ranUpdate
    /\ LET known == { e \in UpdateQuery : e \in DOMAIN entity_to_last_loc }
       IN  \E done \in SUBSET known :
             /\ (UpdateQuery = known) => done = known
             /\ LET r == MoveAll([tree |-> tree, map |-> entity_to_last_loc], done)
                IN  /\ tree' = r.tree
                    /\ entity_to_last_loc' = r.map
                    /\ relocated' = { e \in done : r.map[e] # entity_to_last_loc[e] }
             /\ kdPanicked' = (UpdateQuery # known)
    /\ solids' = [e \in DOMAIN solids |-> [solids[e] EXCEPT !.changed = FALSE]]
    /\ ranUpdate' = TRUE
    /\ UNCHANGED << markers, kdPhase, ranInsert >>
    /\ UNCHANGED << gridVars, idVars, netVars, selVars >>

\* The queued commands are applied once both systems of PreUpdate have run.
apply_system_buffers ==
    /\ ~kdPanicked
    /\ kdPhase = "systems"
    /\ ranInsert /\ ranUpdate
    /\ solids' = [e \in DOMAIN solids |->
                    IF e \in markers THEN [solids[e] EXCEPT !.tracked = TRUE] ELSE solids[e]]
    /\ markers' = {}
    /\ relocated' = {}
    /\ kdPhase' = "world"
    /\ UNCHANGED << tree, entity_to_last_loc, ranInsert, ranUpdate, kdPanicked >>
    /\ UNCHANGED << gridVars, idVars, netVars, selVars >>

\* setup, on entering GameState::Playing again: a fresh EntityKdTree replaces the old one.
setup ==
    /\ ~kdPanicked
    /\ kdPhase = "world"
    /\ tree' = EmptyBag
    /\ entity_to_last_loc' = << >>
    /\ UNCHANGED << solids, markers, relocated, kdPhase, ranInsert, ranUpdate, kdPanicked >>
    /\ UNCHANGED << gridVars, idVars, netVars, selVars >>

\* The rest of the frame: solids are spawned, moved (or just written to) and despawned.
KdSpawn(e, loc) ==
    /\ ~kdPanicked
    /\ kdPhase = "world"
    /\ solids[e].status = "unspawned"
    /\ \A d \in DOMAIN solids : d < e => solids[d].status # "unspawned"
    /\ solids' = [solids EXCEPT ![e] = [status |-> "alive", translation |-> loc,
                                        tracked |-> FALSE, changed |-> TRUE]]
    /\ UNCHANGED << tree, entity_to_last_loc, markers, relocated, kdPhase, ranInsert,
                    ranUpdate, kdPanicked >>
    /\ UNCHANGED << gridVars, idVars, netVars, selVars >>

KdMove(e, loc) ==
    /\ ~kdPanicked
    /\ kdPhase = "world"
    /\ Alive(e)
    /\ solids' = [solids EXCEPT ![e].translation = loc, ![e].changed = TRUE]
    /\ UNCHANGED << tree, entity_to_last_loc, markers, relocated, kdPhase, ranInsert,
                    ranUpdate, kdPanicked >>
    /\ UNCHANGED << gridVars, idVars, netVars, selVars >>

KdDespawn(e) ==
    /\ ~kdPanicked
    /\ kdPhase = "world"
    /\ Alive(e)
    /\ solids' = [solids EXCEPT ![e] = [status |-> "despawned", translation |-> Origin,
                                        tracked |-> FALSE, changed |-> FALSE]]
    /\ UNCHANGED << tree, entity_to_last_loc, markers, relocated, kdPhase, ranInsert,
                    ranUpdate, kdPanicked >>
    /\ UNCHANGED << gridVars, idVars, netVars, selVars >>

\* The next frame begins.
NextFrame ==
    /\ ~kdPanicked
    /\ kdPhase = "world"
    /\ kdPhase' = "systems"
    /\ ranInsert' = FALSE
    /\ ranUpdate' = FALSE
    /\ UNCHANGED << solids, tree, entity_to_last_loc, markers, relocated, kdPanicked >>
    /\ UNCHANGED << gridVars, idVars, netVars, selVars >>

\* setup has run and the first frame is over: nothing is spawned yet.
KdInit ==
    /\ solids = [e \in 1..NumSolids |-> [status |-> "unspawned", translation |-> Origin,
                                          tracked |-> FALSE, changed |-> FALSE]]
    /\ tree = EmptyBag
    /\ entity_to_last_loc = << >>
    /\ markers = {}
    /\ relocated = {}
    /\ kdPhase = "world"
    /\ ranInsert = TRUE
    /\ ranUpdate = TRUE
    /\ kdPanicked = FALSE

\* ------------------------------------------ remote and local entity ids
\* Remote entity ids (EntityNet) and local entity ids (Entity) of the model.
Remotes == 1..NumRemotes
Locals == 1..NumLocals

\* Option: None, or Some value.
None == << >>
Some(v) == << v >>

\* A HashMap::insert that stores the key in place of the value.
hash_insert_key(m, k, v) == [x \in DOMAIN m \cup {k} |-> IF x = k THEN k ELSE m[x]]

\* HashMap::insert: the entry of k is v afterwards, whether or not k had one.
hash_insert(m, k, v) == [x \in DOMAIN m \cup {k} |-> IF x = k THEN v ELSE m[x]]

\* A HashMap::remove that keeps the entry.
hash_remove_kept(m, k) == m

\* HashMap::remove
hash_remove(m, k) == [x \in DOMAIN m \ {k} |-> m[x]]

\* EntityIdMapRes::translate_local
translate_local(local) ==
    IF local \in DOMAIN local_to_remote THEN Some(local_to_remote[local]) ELSE None

\* EntityIdMapRes::translate_remote
translate_remote(remote) ==
    IF remote \in DOMAIN remote_to_local THEN Some(remote_to_local[remote]) ELSE None

\* A register that records the pair in remote_to_local only, and never panics.
EntityIdMapRes_register_one_way(m, remote, local) ==
    [remote_to_local |-> hash_insert(m.remote_to_local, remote, local),
     local_to_remote |-> m.local_to_remote,
     panicked |-> FALSE]

\* The body of EntityIdMapRes::register on the maps m: each insert happens before
\* the assert on its result, and the second insert is not reached when the first
\* assert fails.
EntityIdMapRes_register(m, remote, local) ==
    IF remote \in DOMAIN m.remote_to_local
    THEN [remote_to_local |-> hash_insert(m.remote_to_local, remote, local),
          local_to_remote |-> m.local_to_remote,
          panicked |-> TRUE]
    ELSE [remote_to_local |-> hash_insert(m.remote_to_local, remote, local),
          local_to_remote |-> hash_insert(m.local_to_remote, local, remote),
          panicked |-> local \in DOMAIN m.local_to_remote]

\* The body of EntityIdMapRes::deregister on the maps m: each remove happens
\* before the unwrap of its result; `local` is what the call returns, if it returns.
EntityIdMapRes_deregister(m, remote) ==
    IF remote \notin DOMAIN m.remote_to_local
    THEN [remote_to_local |-> m.remote_to_local,
          local_to_remote |-> m.local_to_remote,
          panicked |-> TRUE, local |-> None]
    ELSE LET local == m.remote_to_local[remote]
         IN  [remote_to_local |-> hash_remove(m.remote_to_local, remote),
              local_to_remote |-> hash_remove(m.local_to_remote, local),
              panicked |-> local \notin DOMAIN m.local_to_remote,
              local |-> IF local \in DOMAIN m.local_to_remote THEN Some(local) ELSE None]

\* The maps of the resource.
MapRes == [remote_to_local |-> remote_to_local, local_to_remote |-> local_to_remote]

\* A call of EntityIdMapRes::register.
register(remote, local) ==
    /\ ~idPanicked
    /\ LET r == EntityIdMapRes_register(MapRes, remote, local)
       IN  /\ remote_to_local' = r.remote_to_local
           /\ local_to_remote' = r.local_to_remote
           /\ idPanicked' = r.panicked
    /\ idReturned' = None
    /\ UNCHANGED << gridVars, kdVars, netVars, selVars >>

\* A call of EntityIdMapRes::deregister.
deregister(remote) ==
    /\ ~idPanicked
    /\ LET r == EntityIdMapRes_deregister(MapRes, remote)
       IN  /\ remote_to_local' = r.remote_to_local
           /\ local_to_remote' = r.local_to_remote
           /\ idPanicked' = r.panicked
           /\ idReturned' = r.local
    /\ UNCHANGED << gridVars, kdVars, netVars, selVars >>

\* EntityIdMapRes::new
IdMapInit ==
    /\ remote_to_local = << >>
    /\ local_to_remote = << >>
    /\ idPanicked = FALSE
    /\ idReturned = None

\* setup of the player message plugin, on entering a multiplayer game again:
\* a fresh EntityIdMapRes replaces the old one.
playermsg_setup ==
    /\ ~idPanicked
    /\ remote_to_local' = << >>
    /\ local_to_remote' = << >>
    /\ idReturned' = None
    /\ UNCHANGED idPanicked
    /\ UNCHANGED << gridVars, kdVars, netVars, selVars >>

\* No message has been received yet; the local world has handed out no entity id.
NetInit ==
    /\ local_entities = 0
    /\ inputs = << >>
    /\ spawn_events = << >>
    /\ despawn_events = << >>
    /\ health_events = << >>

\* Nothing is selected, and no command is queued.
SelInit ==
    /\ selected = {}
    /\ circle_marker = {}
    /\ selCommands = << >>
    /\ selRun = << >>
    /\ selPhase = "input"

\* ------------------------------------------------- incoming player messages
\* EntityNet is a player and an entity index of that player's world: an odd remote
\* id stands for an entity of another player, an even one for an entity of the
\* playable (local) player.
EntityNet_player(remote) == IF remote % 2 = 0 THEN "playable" ELSE "other"
EntityNet_index(remote) == (remote + 1) \div 2

\* The messages a FromPlayersEvent may carry; the payload that recv_messages
\* only passes on (player, object type, transform, delta) is left out.
Messages ==
    [type : { "Spawn", "Despawn", "ChangeHealth" }, entity : Remotes]
      \cup [type : { "Other" }, entity : { 1 }]

\* The non-empty sequences of at most n messages.
MessageRuns(n) == UNION { [1..k -> Messages] : k \in 1..n }

\* Entities::resolve_from_id: the entity at that index, if the local world has
\* handed the index out.
resolve_from_id(count, index) == IF index \in 1..count THEN Some(index) ELSE None

\* NetEntityCommands::local_id
local_id(st, entity) ==
    IF entity \in DOMAIN st.remote_to_local
    THEN Some(st.remote_to_local[entity])
    ELSE resolve_from_id(st.entities, EntityNet_index(entity))

\* One iteration of the loop of recv_messages.
ReceiveOne(st, msg) ==
    CASE msg.type = "Spawn" ->
           LET local == st.entities + 1
               r == EntityIdMapRes_register(st, msg.entity, local)
           IN  [st EXCEPT !.entities = local,
                          !.remote_to_local = r.remote_to_local,
                          !.local_to_remote = r.local_to_remote,
                          !.panicked = r.panicked,
                          !.returned = None,
                          !.spawn = IF r.panicked THEN @ ELSE Append(@, local)]
      [] msg.type = "Despawn" ->
           LET r == EntityIdMapRes_deregister(st, msg.entity)
           IN  [st EXCEPT !.remote_to_local = r.remote_to_local,
                          !.local_to_remote = r.local_to_remote,
                          !.panicked = r.panicked,
                          !.returned = r.local,
                          !.despawn = IF r.panicked THEN @ ELSE Append(@, r.local[1])]
      [] msg.type = "ChangeHealth" ->
           IF local_id(st, msg.entity) = None
           THEN st
           ELSE [st EXCEPT !.health = Append(@, local_id(st, msg.entity)[1])]
      [] OTHER -> st

\* for input in inputs.iter() { ... }: a panic ends the run.
RECURSIVE Receive(_, _)
Receive(st, msgs) ==
    IF msgs = << >> \/ st.panicked THEN st
    ELSE Receive(ReceiveOne(st, Head(msgs)), Tail(msgs))

\* The number of Spawn messages in msgs.
Spawns(msgs) == Cardinality({ i \in DOMAIN msgs : msgs[i].type = "Spawn" })

\* recv_messages, run when there are messages to read; the entities it creates
\* take the next free ids of the local world.
recv_messages(msgs) ==
    /\ ~idPanicked
    /\ local_entities + Spawns(msgs) <= NumLocals
    /\ LET st == Receive([remote_to_local |-> remote_to_local,
                          local_to_remote |-> local_to_remote,
                          panicked |-> FALSE, returned |-> idReturned,
                          entities |-> local_entities,
                          spawn |-> << >>, despawn |-> << >>, health |-> << >>], msgs)
       IN  /\ remote_to_local' = st.remote_to_local
           /\ local_to_remote' = st.local_to_remote
           /\ idPanicked' = st.panicked
           /\ idReturned' = st.returned
           /\ local_entities' = st.entities
           /\ spawn_events' = st.spawn
           /\ despawn_events' = st.despawn
           /\ health_events' = st.health
    /\ inputs' = msgs
    /\ UNCHANGED << gridVars, kdVars, selVars >>

\* The local world spawns an entity of its own.
spawn_local ==
    /\ ~idPanicked
    /\ local_entities < NumLocals
    /\ local_entities' = local_entities + 1
    /\ UNCHANGED << inputs, spawn_events, despawn_events, health_events >>
    /\ UNCHANGED << gridVars, kdVars, idVars, selVars >>

\* ------------------------------------------------------------- selection
\* The entities a SelectEvent may list; the odd ones have the MovableSolid component.
Units == 1..NumUnits
Movable(e) == e % 2 = 1

\* SelectionMode
SelectionModes == { "Replace", "AddToggle" }

\* SelectEvent; `entities` is the set select collects the Vec of the event into.
SelectEvents == [entities : SUBSET Units, mode : SelectionModes]

\* The sequences of at most n events.
EventRuns(n) == UNION { [1..k -> SelectEvents] : k \in 0..n }

\* An AddToggle that selects every listed entity again.
select_every_listed(updated, sel, mode) == updated

\* The first set of the match in select: the entities to select.
select_set(updated, sel, mode) == updated \ sel

\* A Replace that deselects as AddToggle does.
deselect_listed(updated, sel, mode) == updated \cap sel

\* The second set of the match in select: the entities to deselect.
deselect_set(updated, sel, mode) ==
    IF mode = "Replace" THEN sel \ updated ELSE updated \cap sel

\* Selector::select: the commands of the deselect loop, then those of the select
\* loop.  The commands of one loop touch different entities, so each loop is
\* kept as a set.
select(sel, entities, mode) ==
    << { [op |-> "remove", component |-> "Selected", entity |-> e] :
            e \in deselect_set(entities, sel, mode) }
         \cup { [op |-> "remove", component |-> "CircleMarker", entity |-> e] :
            e \in { d \in deselect_set(entities, sel, mode) : Movable(d) } },
       { [op |-> "insert", component |-> "Selected", entity |-> e] :
            e \in select_set(entities, sel, mode) }
         \cup { [op |-> "insert", component |-> "CircleMarker", entity |-> e] :
            e \in { d \in select_set(entities, sel, mode) : Movable(d) } } >>

\* for event in events.iter() { selector.select(...) }: every call reads the
\* Selected query of the world as it is, the commands being applied later.
RECURSIVE SelectAll(_, _)
SelectAll(sel, events) ==
    IF events = << >> THEN << >>
    ELSE select(sel, Head(events).entities, Head(events).mode) \o SelectAll(sel, Tail(events))

\* update_selection
update_selection(events) ==
    /\ selPhase = "input"
    /\ selCommands' = selCommands \o SelectAll(selected, events)
    /\ selRun' = events
    /\ selPhase' = "flush"
    /\ UNCHANGED << selected, circle_marker >>
    /\ UNCHANGED << gridVars, kdVars, idVars, netVars >>

\* The entities with the component once the queued commands are applied in order.
RECURSIVE WithComponent(_, _, _)
WithComponent(has, component, queue) ==
    IF queue = << >> THEN has
    ELSE LET batch == { c \in Head(queue) : c.component = component }
         IN  WithComponent((has \ { c.entity : c \in { b \in batch : b.op = "remove" } })
                              \cup { c.entity : c \in { b \in batch : b.op = "insert" } },
                           component, Tail(queue))

\* The commands are applied at the end of the stage.
apply_selection_commands ==
    /\ selPhase = "flush"
    /\ selected' = WithComponent(selected, "Selected", selCommands)
    /\ circle_marker' = WithComponent(circle_marker, "CircleMarker", selCommands)
    /\ selCommands' = << >>
    /\ selPhase' = "input"
    /\ selRun' = << >>
    /\ UNCHANGED << gridVars, kdVars, idVars, netVars >>

\* ------------------------------------------------------- specifications
Init == GridInit(NumEntities) /\ KdInit /\ IdMapInit /\ NetInit /\ SelInit

Next ==
    \/ update_power_grid
    \/ \E e \in Entities, loc \in Locs : Spawn(e, loc)
    \/ \E e \in Entities, loc \in Locs : Move(e, loc)
    \/ \E e \in Entities : Despawn(e)

Spec == Init /\ [][Next]_vars

\* A growing population: entities only spawn, and the pass runs at any time.
InitCluster == GridInit(ClusterSize) /\ KdInit /\ IdMapInit /\ NetInit /\ SelInit

NextCluster ==
    \/ update_power_grid_in_spawn_order
    \/ \E e \in Entities, loc \in Locs : Spawn(e, loc)

SpecCluster == InitCluster /\ [][NextCluster]_vars

\* The k-d tree index over spawning, moving and despawning solids.
NextKd ==
    \/ insert
    \/ update
    \/ apply_system_buffers
    \/ setup
    \/ NextFrame
    \/ \E e \in DOMAIN solids, loc \in KdLocs : KdSpawn(e, loc)
    \/ \E e \in DOMAIN solids, loc \in KdLocs : KdMove(e, loc)
    \/ \E e \in DOMAIN solids : KdDespawn(e)

SpecKd == Init /\ [][NextKd]_vars

\* The id map under any calls of register and deregister.
NextIdMap ==
    \/ \E remote \in Remotes, local \in Locals : register(remote, local)
    \/ \E remote \in Remotes : deregister(remote)
    \/ playermsg_setup

SpecIdMap == Init /\ [][NextIdMap]_vars

\* The id map under the messages received from the other players.
NextPlayerMsg ==
    \/ \E msgs \in MessageRuns(MaxMessages) : recv_messages(msgs)
    \/ spawn_local
    \/ playermsg_setup

SpecPlayerMsg == Init /\ [][NextPlayerMsg]_vars

\* The selection under any SelectEvents.
NextSelection ==
    \/ selPhase = "input" /\ \E events \in EventRuns(MaxEvents) : update_selection(events)
    \/ apply_selection_commands

SpecSelection == Init /\ [][NextSelection]_vars

\* ------------------------------------------------------------- properties
NodeIds == 1..Len(nodes)

\* Squared length of the edge p on the locations the graph stores for its ends.
EdgeLen2(ns, p) == Dist2(ns[p[1]].location, ns[p[2]].location)

\* C1: when a maintenance pass has completed, every node of the graph has at
\* most MAX_EDGES incident edges.
C1_DegreeAtMostMaxEdges ==
    ~gridPanicked => \A v \in NodeIds : Degree(edges, v) <= MAX_EDGES

\* C2: when a maintenance pass has completed, the two ends of every edge of the
\* graph are within MAX_DISTANCE of each other.
C2_EdgesWithinMaxDistance ==
    ~gridPanicked => \A p \in BagToSet(edges) : EdgeLen2(nodes, p) <= Sq(MAX_DISTANCE)

\* C3: when a maintenance pass has completed, at most one edge joins any two
\* nodes, counting <<a, b>> and <<b, a>> together.
C3_AtMostOneEdgePerPair ==
    ~gridPanicked => \A a, b \in NodeIds : a # b => Multiplicity(edges, a, b) <= 1

\* C4: a pass that completes leaves no node for an entity it found to be no
\* longer eligible, no edge at such a node, and a node for every eligible entity.
C4_RemovedEntitiesLeaveTheGraph ==
    [][ (synced' /\ ~gridPanicked') =>
          /\ \A e \in Removed : \A i \in DOMAIN nodes' : nodes'[i].entity # e
          /\ \A p \in BagToSet(edges') : p[1] \in DOMAIN nodes' /\ p[2] \in DOMAIN nodes'
          /\ \A e \in Entities : Eligible(e) => \E i \in DOMAIN nodes' : nodes'[i].entity = e
      ]_vars

\* C5: a pass that runs right after a completed pass, with no change of the
\* world in between, leaves the nodes and the edges of the graph as they were.
C5_SecondPassChangesNothing ==
    [][ (synced /\ synced' /\ ~gridPanicked') => (nodes' = nodes /\ edges' = edges) ]_vars

\* The nodes node u chose for new edges in the last pass, and the edges the
\* graph had while that pass was choosing.
Chosen(u) == { c[2] : c \in { d \in Range(edges_to_add) : d[1] = u } }
EdgesBeforeAdding == edges (-) [c \in Range(edges_to_add) |-> 1]

\* C6: in a completed pass, a node u with more than MAX_EDGES other nodes within
\* MAX_DISTANCE chooses at most MAX_EDGES candidates, none of them u itself or
\* already joined to u, and none farther from u than a node within MAX_DISTANCE
\* that was not joined to u and was not chosen.
C6_ClosestCandidatesChosen ==
    (synced /\ ~gridPanicked) =>
      \A u \in NodeIds :
        LET inRange == { w \in NodeIds \ {u} : WithinMax(nodes[u].location, nodes[w].location) }
            free == { w \in inRange : ~find_edge(EdgesBeforeAdding, u, w) }
        IN  Cardinality(inRange) > MAX_EDGES =>
              /\ Cardinality(Chosen(u)) <= MAX_EDGES
              /\ Chosen(u) \subseteq free
              /\ \A v \in Chosen(u), w \in free \ Chosen(u) :
                    Dist2(nodes[u].location, nodes[v].location)
                      <= Dist2(nodes[u].location, nodes[w].location)

\* Squared length of the longest edge at node v.
FarthestLen2(ns, es, v) ==
    LET inc == { p \in BagToSet(es) : p[1] = v \/ p[2] = v }
    IN  IF inc = {} THEN 0
        ELSE LET m == CHOOSE p \in inc : \A q \in inc : EdgeLen2(ns, q) <= EdgeLen2(ns, p)
             IN  EdgeLen2(ns, m)

\* C7: in a completed pass that removes no node, an edge <<u, v>> is added to a
\* node v that already had MAX_EDGES edges only if it is strictly shorter than
\* the longest edge of v, one of which the pass then removes; an edge added to
\* a node v with fewer edges is in the graph with weight MAX_TRANSFER_RATE.
C7_FullCandidateEvictsFarthest ==
    [][ (synced' /\ ~gridPanicked' /\ Removed = {}) =>
          \A c \in Range(edges_to_add') :
            IF Degree(edges, c[2]) >= MAX_EDGES
            THEN /\ EdgeLen2(nodes', c) < FarthestLen2(nodes', edges, c[2])
                 /\ \E p \in BagToSet(edges) :
                      /\ p[1] = c[2] \/ p[2] = c[2]
                      /\ EdgeLen2(nodes', p) = FarthestLen2(nodes', edges, c[2])
                      /\ CopiesIn(p, edges') < CopiesIn(p, edges)
            ELSE c[3] = MAX_TRANSFER_RATE /\ BagIn(c, edges')
      ]_vars

\* Every eligible entity has at most MAX_EDGES other eligible entities within MAX_DISTANCE.
SparseWorld ==
    \A e \in Entities : Eligible(e) =>
        Cardinality({ d \in Entities \ {e} :
                        Eligible(d) /\ WithinMax(world[e].location, world[d].location) })
          <= MAX_EDGES

\* C8: a pass that completes on an empty graph over a world in which no entity
\* has more than MAX_EDGES others within MAX_DISTANCE joins every two nodes within
\* MAX_DISTANCE by exactly one edge, and no others.
C8_FirstPassJoinsExactlyThePairsInRange ==
    [][ (nodes = << >> /\ synced' /\ ~gridPanicked' /\ SparseWorld) =>
          \A a, b \in DOMAIN nodes' : a # b =>
            Multiplicity(edges', a, b) =
              IF WithinMax(nodes'[a].location, nodes'[b].location) THEN 1 ELSE 0
      ]_vars

\* A radius that covers every position of the model, around the origin.
WholeWorld == 100
Centre == << 0, 0 >>

\* The number of results of the whole-world query that name entity e.
TimesReturned(e) ==
    Cardinality({ i \in DOMAIN radius(Centre, WholeWorld) : radius(Centre, WholeWorld)[i][2] = e })

\* C9: the tree holds exactly one item for every recorded entity, at its recorded
\* location, and nothing else; the whole-world query returns every recorded
\* entity exactly once, at the distance of its recorded location; and once
\* update has run in a frame the recorded location of every live recorded entity
\* is its current flat position.
C9_TreeHoldsExactlyTheRecordedEntities ==
    /\ tree = [x \in { << entity_to_last_loc[e], to_bits(e) >> : e \in DOMAIN entity_to_last_loc }
                 |-> 1]
    /\ \A e \in DOMAIN entity_to_last_loc : TimesReturned(e) = 1
    /\ \A i \in DOMAIN radius(Centre, WholeWorld) :
         LET res == radius(Centre, WholeWorld)[i]
         IN  /\ res[2] \in DOMAIN entity_to_last_loc
             /\ res[1] = Manhattan(Centre, entity_to_last_loc[res[2]])
    /\ (kdPhase = "systems" /\ ranUpdate /\ ~kdPanicked) =>
         \A e \in DOMAIN entity_to_last_loc :
            Alive(e) => entity_to_last_loc[e] = to_flat(solids[e].translation)

\* Witness of C9: update has just moved the tree item of a live entity that is
\* still recorded, while another entity is recorded as well.
C9_Witness ==
    /\ kdPhase = "systems" /\ ranUpdate /\ ~kdPanicked
    /\ \E e \in relocated :
         /\ Alive(e) /\ e \in DOMAIN entity_to_last_loc
         /\ \E d \in DOMAIN entity_to_last_loc : d # e

\* C10: once a frame's systems have run, an entity despawned before that frame has
\* no recorded location, no item in the tree, and is returned by no query.
C10_DespawnedEntityIsForgotten ==
    (kdPhase = "systems" /\ ranInsert /\ ranUpdate /\ ~kdPanicked) =>
      \A e \in DOMAIN solids : solids[e].status = "despawned" =>
         /\ e \notin DOMAIN entity_to_last_loc
         /\ \A x \in BagToSet(tree) : from_bits(x[2]) # e
         /\ TimesReturned(e) = 0

\* Query points and radii of the radius queries below.
QueryPoints == { << 0, 0 >>, << 5, 0 >> }
QueryRadii == { 0, 6, 7, 8 }
\* Radii that differ from every distance between a query point and a flat position.
OffBoundaryRadii == { 2, 8 } \cup { 6 }

\* Squared Euclidean distance of two flat positions.
Euclid2(a, b) == Sq(a[1] - b[1]) + Sq(a[2] - b[2])

\* The entities a radius query returns.
Returned(p, r) == { radius(p, r)[i][2] : i \in DOMAIN radius(p, r) }

C12_ManhattanOrderIsEuclideanOrder ==
    \A p \in QueryPoints :
        LET res == radius(p, WholeWorld)
        IN  \A i, j \in DOMAIN res : i < j =>
               Euclid2(p, entity_to_last_loc[res[i][2]]) <= Euclid2(p, entity_to_last_loc[res[j][2]])

\* The maximum count the test asks radius for.
RequestedMax == 2

\* C13: a radius query returns each entity with the Manhattan distance of its
\* recorded position, nearest first, and at most the requested number of entities.
C13_RadiusHonoursMaximumCount ==
    \A p \in QueryPoints :
        LET res == radius(p, WholeWorld)
        IN  /\ \A i \in DOMAIN res : res[i][1] = Manhattan(p, entity_to_last_loc[res[i][2]])
            /\ \A i, j \in DOMAIN res : i < j => res[i][1] <= res[j][1]
            /\ Len(res) <= RequestedMax

\* C14: a pass leaves the same graph whatever the order in which the hash map
\* hands over the entities to remove: from one state and one order of the
\* queries, any two removal orders give the same nodes and the same edges.
C14_RemovalOrderDoesNotMatter ==
    ~gridPanicked =>
      \A ro \in Perms(Receivers), po \in Perms(Producers) :
        \A r1, r2 \in Perms(Removed) :
          /\ RunPass(r1, ro \o po).panicked = RunPass(r2, ro \o po).panicked
          /\ RunPass(r1, ro \o po).nodes = RunPass(r2, ro \o po).nodes
          /\ RunPass(r1, ro \o po).edges = RunPass(r2, ro \o po).edges

\* C15: a completed pass neither adds nor removes an edge between two nodes that
\* were in the graph before it and have not moved (in a world where entities
\* only spawn, every node the graph had before the pass).
C15_EdgesOfUntouchedNodesStay ==
    [][ (synced' /\ ~gridPanicked') =>
          \A a, b \in DOMAIN nodes : a # b =>
            Multiplicity(edges', a, b) = Multiplicity(edges, a, b)
      ]_vars

\* C16: no edge a completed pass adds has, at either end, the node of an entity
\* the pass found to be no longer eligible.
C16_NoEdgeAddedToRemovedEntity ==
    [][ (synced' /\ ~gridPanicked') =>
          \A c \in Range(edges_to_add') :
            /\ nodes'[c[1]].entity \notin Removed
            /\ nodes'[c[2]].entity \notin Removed
      ]_vars

\* C19: an eligible entity that has no entry in entity_to_node when a pass
\* starts has, when the pass completes, an entry, exactly one node, and that
\* node holds its current location.
C19_UnknownEntityGetsItsNode ==
    [][ (synced' /\ ~gridPanicked') =>
          \A e \in Entities : (Eligible(e) /\ e \notin DOMAIN entity_to_node) =>
            /\ e \in DOMAIN entity_to_node'
            /\ Cardinality({ i \in DOMAIN nodes' : nodes'[i].entity = e }) = 1
            /\ entity_to_node'[e] \in DOMAIN nodes'
            /\ nodes'[entity_to_node'[e]].entity = e
            /\ nodes'[entity_to_node'[e]].location = world[e].location
      ]_vars

\* C18: update never panics, whatever setup, insert and update did before.
C18_UpdateNeverPanics == ~kdPanicked

C21_DeregisterRemovesThePair ==
    [][ \A remote \in Remotes : deregister(remote) =>
          IF remote \notin DOMAIN remote_to_local
          THEN idPanicked'
          ELSE \A local \in Locals : remote_to_local[remote] = local =>
                 /\ ~idPanicked'
                 /\ idReturned' = Some(local)
                 /\ translate_remote(remote)' = None
                 /\ translate_local(local)' = None
                 /\ \A r \in Remotes \ {remote} : translate_remote(r)' = translate_remote(r)
                 /\ \A l \in Locals \ {local} : translate_local(l)' = translate_local(l)
      ]_vars

\* Witness of C21: deregister has returned a local entity, which is registered
\* no more, while another pair is still registered.
C21_Witness ==
    /\ ~idPanicked
    /\ idReturned # None
    /\ translate_local(idReturned[1]) = None
    /\ remote_to_local # << >>

\* C27: as long as no call has panicked, remote_to_local and local_to_remote are
\* inverse of each other: r maps to l exactly when l maps to r.
C27_MapsAreInverseBijections ==
    ~idPanicked =>
      /\ \A r \in Remotes, l \in Locals :
            (translate_remote(r) = Some(l)) <=> (translate_local(l) = Some(r))
      /\ Cardinality(DOMAIN remote_to_local) = Cardinality(DOMAIN local_to_remote)
      /\ \A r1, r2 \in DOMAIN remote_to_local :
            remote_to_local[r1] = remote_to_local[r2] => r1 = r2

\* Witness of C27: after a deregister that returned, two pairs are registered.
C27_Witness ==
    /\ ~idPanicked
    /\ Cardinality(DOMAIN remote_to_local) = 2
    /\ Cardinality(DOMAIN local_to_remote) = 2
    /\ \E r \in Remotes : r \notin DOMAIN remote_to_local

\* The remote entity is recognized: it is registered, or it is an entity of the
\* playable player whose index is a local entity that stands for no remote one.
Recognized(remote) ==
    \/ remote \in DOMAIN remote_to_local
    \/ /\ EntityNet_player(remote) = "playable"
       /\ EntityNet_index(remote) \in 1..local_entities
       /\ EntityNet_index(remote) \notin DOMAIN local_to_remote

\* The local entity that stands for a recognized remote entity.
StandsFor(remote) ==
    IF remote \in DOMAIN remote_to_local THEN remote_to_local[remote]
    ELSE EntityNet_index(remote)

\* The health events due for the ChangeHealth messages of msgs, on the id map as it is.
RECURSIVE HealthDue(_)
HealthDue(msgs) ==
    IF msgs = << >> THEN << >>
    ELSE (IF Head(msgs).type = "ChangeHealth" /\ Recognized(Head(msgs).entity)
          THEN << StandsFor(Head(msgs).entity) >> ELSE << >>) \o HealthDue(Tail(msgs))

\* C28: a run of recv_messages over messages none of which is a Spawn or a
\* Despawn leaves the id map as it was and sends a health event for exactly the
\* ChangeHealth messages whose entity is recognized, each to the local entity
\* that stands for it; a run over one Despawn of a registered entity sends a
\* despawn event with the local entity registered for it.
C28_HealthEventsOnlyForRecognizedEntities ==
    [][ \A msgs \in MessageRuns(MaxMessages) : recv_messages(msgs) =>
          /\ (\A i \in DOMAIN msgs : msgs[i].type \in { "ChangeHealth", "Other" }) =>
                /\ health_events' = HealthDue(msgs)
                /\ remote_to_local' = remote_to_local
                /\ local_to_remote' = local_to_remote
          /\ (Len(msgs) = 1 /\ msgs[1].type = "Despawn"
                /\ msgs[1].entity \in DOMAIN remote_to_local) =>
                despawn_events' = << remote_to_local[msgs[1].entity] >>
      ]_vars

\* The step that applies the commands of the last run of update_selection.
Flushed == selPhase = "flush" /\ selPhase' = "input"

\* C22: when the commands of a run over one AddToggle event are applied, the
\* listed entities that were selected are not selected any more, the listed
\* entities that were not selected are, and no other entity changes.
C22_AddToggleTogglesTheListed ==
    [][ (Flushed /\ Len(selRun) = 1 /\ selRun[1].mode = "AddToggle") =>
          \A e \in Units :
            (e \in selected') <=> IF e \in selRun[1].entities THEN e \notin selected
                                  ELSE e \in selected
      ]_vars

\* Witness of C22: a run over one AddToggle event has queued its commands; of
\* the listed entities one is selected and one is not.
C22_Witness ==
    /\ selPhase = "flush"
    /\ Len(selRun) = 1
    /\ selRun[1].mode = "AddToggle"
    /\ selRun[1].entities \cap selected # {}
    /\ selRun[1].entities \ selected # {}
    /\ selCommands # << >>

\* The selection after one event, and after a sequence of events one after another.
AfterEvent(sel, event) ==
    IF event.mode = "Replace" THEN event.entities
    ELSE (sel \ event.entities) \cup (event.entities \ sel)

RECURSIVE AfterEvents(_, _)
AfterEvents(sel, events) ==
    IF events = << >> THEN sel
    ELSE AfterEvents(AfterEvent(sel, Head(events)), Tail(events))

\* C29: when the commands of a run of update_selection are applied, the
\* selection is what applying the events of the run one after another gives.
C29_EventsOfOneRunApplyInSequence ==
    [][ Flushed => selected' = AfterEvents(selected, selRun) ]_vars

\* C30: when the commands of a run over one Replace event are applied, the
\* selected entities are exactly the listed ones, and a movable entity has a
\* CircleMarker exactly when it is selected.
C30_ReplaceSelectsExactlyTheListed ==
    [][ (Flushed /\ Len(selRun) = 1 /\ selRun[1].mode = "Replace") =>
          /\ selected' = selRun[1].entities
          /\ \A e \in Units : Movable(e) => (e \in circle_marker' <=> e \in selected')
      ]_vars

\* Witness of C30: a run over one Replace event has queued its commands; a
\* movable entity is selected and not listed, another movable entity is listed
\* and not selected, and an entity that is not movable is listed.
C30_Witness ==
    /\ selPhase = "flush"
    /\ Len(selRun) = 1
    /\ selRun[1].mode = "Replace"
    /\ \E e \in selected \ selRun[1].entities : Movable(e) /\ e \in circle_marker
    /\ \E e \in selRun[1].entities \ selected : Movable(e) /\ e \notin circle_marker
    /\ \E e \in selRun[1].entities : ~Movable(e)
    /\ selCommands # << >>

\* C23: when a pass has completed, the keys of entity_to_node are exactly the
\* eligible entities, each maps to an index of the graph whose node is that
\* entity's, and the graph has one node for each eligible entity and no other.
C23_MapAndGraphAgree ==
    (synced /\ ~gridPanicked) =>
      /\ DOMAIN entity_to_node = { e \in Entities : Eligible(e) }
      /\ \A e \in DOMAIN entity_to_node :
            entity_to_node[e] \in DOMAIN nodes /\ nodes[entity_to_node[e]].entity = e
      /\ \A e \in Entities : Eligible(e) =>
            Cardinality({ i \in DOMAIN nodes : nodes[i].entity = e }) = 1
      /\ \A i \in DOMAIN nodes : Eligible(nodes[i].entity)

\* C24: no edge of the graph joins a node to itself.
C24_NoSelfLoop == \A p \in BagToSet(edges) : p[1] # p[2]

\* Witness of C24: a pass has completed on a graph that has edges, after an
\* entity was despawned.
C24_Witness ==
    /\ synced /\ ~gridPanicked
    /\ edges # EmptyBag
    /\ \E e \in Entities : world[e].status = "despawned"

\* C25: when a pass has completed, the node of every eligible entity stores the
\* current translation of the entity.
C25_NodeLocationsAreCurrent ==
    (synced /\ ~gridPanicked) =>
      \A i \in DOMAIN nodes : Eligible(nodes[i].entity) =>
         nodes[i].location = world[nodes[i].entity].location

\* The flat positions of the model, and the step in which update runs.
FlatPoints == { to_flat(l) : l \in KdLocs }
UpdateRan == ~ranUpdate /\ ranUpdate'

\* C26: a run of update that does not panic leaves the record and the tree items
\* of an entity as they were unless the entity is in its query with a flat
\* position other than the recorded one; for such an entity one item at the
\* recorded position goes, one item at the new position comes, every other
\* item stays, and the record becomes the new position.
C26_UpdateMovesOnlyWhatMoved ==
    [][ (UpdateRan /\ ~kdPanicked') =>
          /\ DOMAIN entity_to_last_loc' = DOMAIN entity_to_last_loc
          /\ \A e \in DOMAIN entity_to_last_loc : \A new \in FlatPoints :
               (IF e \in UpdateQuery THEN new = to_flat(solids[e].translation)
                ELSE new = entity_to_last_loc[e]) =>
                 /\ entity_to_last_loc'[e] = new
                 /\ \A point \in FlatPoints :
                      CopiesIn(<< point, to_bits(e) >>, tree') =
                        CopiesIn(<< point, to_bits(e) >>, tree)
                          - (IF point = entity_to_last_loc[e] /\ point # new THEN 1 ELSE 0)
                          + (IF point = new /\ point # entity_to_last_loc[e] THEN 1 ELSE 0)
      ]_vars

\* Witness of C26: update has moved the item of one entity and has left the
\* record of another as it was.
C26_Witness ==
    /\ ~kdPanicked
    /\ kdPhase = "systems" /\ ranUpdate
    /\ relocated # {}
    /\ DOMAIN entity_to_last_loc \ relocated # {}

====
